---------------------------- MODULE Spec2Model ----------------------------
(***************************************************************************)
(* heightmap2brz: the two front-ends of the converter.                     *)
(*                                                                         *)
(*   src/src/gui/app.rs  HeightmapApp: the settings panel, options(),      *)
(*                       run_converter() and its worker thread,            *)
(*                       draw_progress(), draw_submit(), update()          *)
(*   src/src/main.rs     the command line main()                           *)
(*                                                                         *)
(* The generator (opt.rs), the image readers (gui/util.rs, map.rs) and the *)
(* encoders (the brdb crate) are not part of these two files: their calls  *)
(* are modelled by the results they can return.                            *)
(***************************************************************************)
EXTENDS Integers, Sequences, FiniteSets, TLC

VARIABLES
    front,              \* which program runs: "gui", "cli" or "opt" (options only)
    build,              \* the build: [windows, overflow_checks]
    \* ---- HeightmapApp (app.rs 43-64)
    heightmaps,         \* number of selected heightmap files
    colormap,           \* TRUE when a colormap is selected (Option::is_some)
    out_file,           \* the output file name, a sequence of characters
    out_clipboard,
    vertical_scale,
    horizontal_size,
    optimization,
    mode,
    progress,           \* the last progress message received
    progress_channel,   \* the messages in flight on the progress channel
    promise,            \* TRUE: Some(promise of the newest run), FALSE: None
    gen_interrupt,      \* TRUE: Some(sender of the newest interrupt channel)
    \* ---- the run started by the newest run_converter call
    worker,             \* its worker thread and what that did
    overlap,            \* TRUE once a worker was spawned beside a live one
    \* ---- the result of options() applied on its own
    gui_options,
    \* ---- the command line program
    cli

vars == <<front, build, heightmaps, colormap, out_file, out_clipboard,
          vertical_scale, horizontal_size, optimization, mode, progress,
          progress_channel, promise, gen_interrupt, worker, overlap,
          gui_options, cli>>

appSettings == <<heightmaps, colormap, out_file, out_clipboard, vertical_scale,
                 horizontal_size, optimization, mode>>

-----------------------------------------------------------------------------
(* Bounds of the model *)

\* calls of the progress callback by the generator in one run
MaxCallbacks == 2
\* Stop clicks queued on one interrupt channel
MaxStops == 1

-----------------------------------------------------------------------------
(* Integer widths *)

U16Max == 65535

\* the range of both sliders, 1..=100
SliderMin == 1
SliderMax == 100

\* the multiplier of the size for the stud-based families
StudUnit == 5

Clamp(v, lo, hi) == IF v < lo THEN lo ELSE IF v > hi THEN hi ELSE v

\* a * b on u16: the exact product when it fits; otherwise the build decides:
\* a panic with overflow checks, the product modulo 2^16 without.
U16Mul(a, b, checks) ==
    IF a * b <= U16Max THEN [ok |-> TRUE, val |-> a * b]
    ELSE IF checks THEN [ok |-> FALSE, val |-> 0]
    ELSE [ok |-> TRUE, val |-> (a * b) % (U16Max + 1)]

-----------------------------------------------------------------------------
(* f32 arithmetic.  A value is held as the integer v with value v * 2^-27, *)
(* which is exact for 0 and for every f32 in [2^-4, 16).                   *)

F32One == 2 ^ 27

\* the smallest s with n < 2^(24+s): the bits n has beyond a 24 bit mantissa
RECURSIVE ExtraBits(_)
ExtraBits(n) == IF n < 2 ^ 24 THEN 0 ELSE 1 + ExtraBits(n \div 2)

\* n rounded to 24 significant bits, ties to even (IEEE 754 default rounding)
RoundMantissa(n) ==
    LET s    == ExtraBits(n)
        q    == n \div (2 ^ s)
        rem  == n % (2 ^ s)
        half == IF s = 0 THEN 0 ELSE 2 ^ (s - 1)
        up   == s > 0 /\ (rem > half \/ (rem = half /\ q % 2 = 1))
    IN  (IF up THEN q + 1 ELSE q) * (2 ^ s)

F32Add(a, b) == RoundMantissa(a + b)

\* a * (k / 4): k quarters is exact in f32, the product is rounded once
F32MulQuarters(a, k) == RoundMantissa(a * k) \div 4

\* the literals of app.rs as f32 (nearest f32 to the decimal literal)
F_0_10 == 13421773
F_0_85 == 114085072
F_0_95 == 127506840
F_1_0 == 134217728
F_2_0 == 268435456
F_0_0 == 0

\* the fraction sent by the generator callback: 0.1 + 0.85 * p, p = k/4
GeneratingFraction(k) == F32Add(F_0_10, F32MulQuarters(F_0_85, k))

-----------------------------------------------------------------------------
(* File names: sequences of characters; to_lowercase and ends_with *)

LowerChar(c) ==
    CASE c = "B" -> "b"
      [] c = "R" -> "r"
      [] c = "Z" -> "z"
      [] c = "D" -> "d"
      [] c = "O" -> "o"
      [] c = "X" -> "x"
      [] OTHER   -> c

to_lowercase(s) == [i \in 1..Len(s) |-> LowerChar(s[i])]

ends_with(s, suffix) ==
    /\ Len(s) >= Len(suffix)
    /\ SubSeq(s, Len(s) - Len(suffix) + 1, Len(s)) = suffix

DotBrz  == <<".", "b", "r", "z">>
DotBrdb == <<".", "b", "r", "d", "b">>

\* the dispatch on the output name (app.rs 196/210/216, main.rs 146/158/163)
OutputKind(name) ==
    IF ends_with(to_lowercase(name), DotBrz) THEN "brz"
    ELSE IF ends_with(to_lowercase(name), DotBrdb) THEN "brdb"
    ELSE "other"

GuiDefaultOutFile == <<"o", "u", "t", ".", "b", "r", "z">>
CliDefaultOutFile == <<".", "/", "o", "u", "t", ".", "b", "r", "z">>

\* the names a user types into the GUI's text field
OutFiles ==
    { GuiDefaultOutFile,
      <<"o", ".", "B", "R", "D", "B">>,
      <<"o", "b", "r", "z">> }

\* the names given to --output
CliOutFiles ==
    { <<"O", ".", "B", "r", "Z">>,
      <<"o", ".", "b", "r", "d", "b">>,
      <<"o", ".", "b", "r", "z", "x">> }

-----------------------------------------------------------------------------
(* GenOptions.  The flags that are copied unchanged from a checkbox or a   *)
(* command line flag (cull, snap, glow, hdmap, lrgb, nocollide) are left   *)
(* out: no operation of the front-ends reads them.  The command line's     *)
(* record keeps hdmap, which main hands to the heightmap decoder.          *)

BrickModes == {"Default", "Tile", "SmoothTile", "Stud", "Micro"}
OptimizationModes == {"None", "Quad", "Greedy"}

NoOptions == [built |-> FALSE]

\* options() with img set by the colormap alone
ImgWithAnyColormap(m, hsize, vscale, opt, nheightmaps, cmap, checks) ==
    LET size == IF m = "Micro" THEN [ok |-> TRUE, val |-> hsize]
                ELSE U16Mul(hsize, StudUnit, checks)
    IN  IF ~size.ok THEN NoOptions
        ELSE [ built    |-> TRUE,
               size     |-> size.val,
               scale    |-> vscale,
               asset    |-> CASE m = "Default"    -> "PB_DEFAULT_BRICK"
                              [] m = "Tile"       -> "PB_DEFAULT_BRICK"
                              [] m = "SmoothTile" -> "PB_DEFAULT_SMOOTH_TILE"
                              [] m = "Stud"       -> "PB_DEFAULT_STUDDED"
                              [] m = "Micro"      -> "PB_DEFAULT_MICRO_BRICK",
               micro    |-> (m = "Micro"),
               stud     |-> (m = "Stud"),
               img      |-> cmap,
               quadtree |-> (opt = "Quad"),
               greedy   |-> (opt = "Greedy") ]

\* HeightmapApp::options, as a function of the fields it reads.
\* built is FALSE when the u16 multiplication panics.
GuiGenOptions(m, hsize, vscale, opt, nheightmaps, cmap, checks) ==
    LET size == IF m = "Micro" THEN [ok |-> TRUE, val |-> hsize]
                ELSE U16Mul(hsize, StudUnit, checks)
    IN  IF ~size.ok THEN NoOptions
        ELSE [ built    |-> TRUE,
               size     |-> size.val,
               scale    |-> vscale,
               asset    |-> CASE m = "Default"    -> "PB_DEFAULT_BRICK"
                              [] m = "Tile"       -> "PB_DEFAULT_BRICK"
                              [] m = "SmoothTile" -> "PB_DEFAULT_SMOOTH_TILE"
                              [] m = "Stud"       -> "PB_DEFAULT_STUDDED"
                              [] m = "Micro"      -> "PB_DEFAULT_MICRO_BRICK",
               micro    |-> (m = "Micro"),
               stud     |-> (m = "Stud"),
               img      |-> (nheightmaps = 0 /\ cmap),
               quadtree |-> (opt = "Quad"),
               greedy   |-> (opt = "Greedy") ]

\* self.options()
options ==
    GuiGenOptions(mode, horizontal_size, vertical_scale, optimization,
                  heightmaps, colormap, build.overflow_checks)

-----------------------------------------------------------------------------
(* The command line: main.rs 21-95 *)

\* an option that takes a value: absent, or the number typed
Absent == [given |-> FALSE, val |-> 0]
Arg(n) == [given |-> TRUE, val |-> n]

value_or(arg, default) == IF arg.given THEN arg.val ELSE default

\* str::parse::<u16>: Err for anything that is no number of 0..65535
ParseU16(n) == IF 0 <= n /\ n <= U16Max THEN [ok |-> TRUE, val |-> n]
               ELSE [ok |-> FALSE, val |-> 0]

\* str::parse::<u32>: the numbers typed here stay below 2^31, so only a
\* negative one is refused
ParseU32(n) == IF 0 <= n THEN [ok |-> TRUE, val |-> n]
               ELSE [ok |-> FALSE, val |-> 0]

CliSizeArgs  == {Absent, Arg(0), Arg(1), Arg(100), Arg(13108), Arg(65536)}
CliScaleArgs == {Absent, Arg(0), Arg(101)}
CliOutArgs   == {[given |-> FALSE, val |-> <<>>]} \cup
                {[given |-> TRUE, val |-> n] : n \in CliOutFiles}

Argvs ==
    [ size : CliSizeArgs, vertical : CliScaleArgs, output : CliOutArgs,
      colormap : BOOLEAN, micro : BOOLEAN, tile : BOOLEAN, smooth : BOOLEAN,
      stud : BOOLEAN, greedy : BOOLEAN, img : BOOLEAN, hdmap : BOOLEAN ]

\* main.rs 61-95: the GenOptions literal.  built is FALSE when an expect()
\* or the u16 multiplication panics.
CliGenOptions(argv, checks) ==
    LET parsed == ParseU16(value_or(argv.size, 1))
        size   == IF parsed.ok
                  THEN U16Mul(parsed.val, IF argv.micro THEN 1 ELSE StudUnit, checks)
                  ELSE [ok |-> FALSE, val |-> 0]
        scale  == ParseU32(value_or(argv.vertical, 1))
    IN  IF ~size.ok \/ ~scale.ok THEN NoOptions
        ELSE [ built    |-> TRUE,
               size     |-> size.val,
               scale    |-> scale.val,
               asset    |-> IF argv.micro THEN "PB_DEFAULT_MICRO_BRICK"
                            ELSE IF argv.tile THEN "PB_DEFAULT_TILE"
                            ELSE IF argv.smooth THEN "PB_DEFAULT_SMOOTH_TILE"
                            ELSE IF argv.stud THEN "PB_DEFAULT_STUDDED"
                            ELSE "PB_DEFAULT_BRICK",
               micro    |-> argv.micro,
               stud     |-> argv.stud,
               img      |-> argv.img,
               hdmap    |-> argv.hdmap,
               quadtree |-> TRUE,
               greedy   |-> argv.greedy ]

-----------------------------------------------------------------------------
(* The state after construction *)

Msg(label, frac) == [label |-> label, frac |-> frac]

Upd(rec, changes) ==
    [f \in DOMAIN rec |-> IF f \in DOMAIN changes THEN changes[f] ELSE rec[f]]

NoMsg == Msg("none", 0)

\* the worker before run_converter has spawned it
NoRun ==
    [ pc           |-> "unused",
      out_file     |-> <<>>,        \* the clones taken by run_converter
      is_clipboard |-> FALSE,
      options      |-> NoOptions,
      interrupts   |-> 0,           \* () messages waiting on the interrupt channel
      calls        |-> 0,           \* callback calls made by the generator
      p            |-> 0,           \* the generator's last p, in quarters
      first        |-> NoMsg,       \* the first and the newest progress
      last         |-> NoMsg,       \*   message sent for this run
      gen          |-> "none",      \* what gen_opt_heightmap returned
      observed     |-> "none",      \* the polling point that saw the interrupt
      saves        |-> 0,           \* bricks_to_save calls
      encoder      |-> "none",      \* the encoder invoked
      encodes      |-> 0,           \* encoder calls
      writes       |-> 0,           \* writes of the output file
      written      |-> FALSE,       \* a write of the output file returned Ok
      sends        |-> 0,           \* sender.send calls
      result       |-> "pending" ]  \* the promise: pending, Ok, or the Err text

\* impl Default for HeightmapApp
InitApp ==
    /\ heightmaps = 0
    /\ colormap = FALSE
    /\ out_file = GuiDefaultOutFile
    /\ out_clipboard = TRUE
    /\ vertical_scale = 1
    /\ horizontal_size = 1
    /\ optimization = "Quad"
    /\ mode = "Micro"
    /\ promise = FALSE
    /\ progress = Msg("Pending", F_0_0)
    /\ progress_channel = <<>>
    /\ gen_interrupt = FALSE
    /\ worker = NoRun
    /\ overlap = FALSE
    /\ gui_options = NoOptions

\* main() before its first statement
CliStart ==
    [ pc           |-> "start",
      argv         |-> [given |-> FALSE],
      options      |-> NoOptions,
      out_file     |-> <<>>,
      colormap_src |-> "none",      \* the file the colormap is read from
      heightmap    |-> "none",      \* flat (of the colormap's size), png
      decodes      |-> 0,           \* HeightmapPNG::new calls
      decode_hdmap |-> FALSE,       \* the hdmap argument of that call
      gen          |-> "none",
      saves        |-> 0,
      encoder      |-> "none",
      encodes      |-> 0,
      writes       |-> 0,
      outcome      |-> "running" ]

-----------------------------------------------------------------------------
(* The settings panel: draw_settings, app.rs 300-477 *)

\* one change of one widget: the field and its new value, held in the
\* component of its type
Edit(field, name, flag, num, sel) ==
    [field |-> field, name |-> name, flag |-> flag, num |-> num, sel |-> sel]

NoEdit == Edit("none", <<>>, FALSE, 0, "")

\* the file pickers and the remove buttons
FileEdits ==
    {Edit("heightmaps", <<>>, FALSE, n, "") : n \in 0..1}
    \cup {Edit("colormap", <<>>, b, 0, "") : b \in BOOLEAN}

\* the widgets whose values the worker or the buttons read
RunEdits ==
    {NoEdit}
    \cup {Edit("out_file", n, FALSE, 0, "") : n \in OutFiles}
    \cup {Edit("out_clipboard", <<>>, b, 0, "") : b \in BOOLEAN}
    \cup FileEdits

\* what a user drags a slider to or types into it
SliderInputs == {0, 1, 100, 101}

\* the widgets that options() reads
OptionEdits ==
    {Edit("mode", <<>>, FALSE, 0, m) : m \in BrickModes}
    \cup {Edit("optimization", <<>>, FALSE, 0, o) : o \in OptimizationModes}
    \cup {Edit("horizontal_size", <<>>, FALSE, n, "") : n \in SliderInputs}
    \cup {Edit("vertical_scale", <<>>, FALSE, n, "") : n \in SliderInputs}
    \cup FileEdits

\* 312-476: the text field, the checkbox, the two sliders (which clamp to
\* their range), the radio buttons and the file selections
draw_settings(e) ==
    /\ out_file' = IF e.field = "out_file" THEN e.name ELSE out_file
    /\ out_clipboard' = IF e.field = "out_clipboard" THEN e.flag ELSE out_clipboard
    /\ heightmaps' = IF e.field = "heightmaps" THEN e.num ELSE heightmaps
    /\ colormap' = IF e.field = "colormap" THEN e.flag ELSE colormap
    /\ mode' = IF e.field = "mode" THEN e.sel ELSE mode
    /\ optimization' = IF e.field = "optimization" THEN e.sel ELSE optimization
    /\ horizontal_size' =
          IF e.field = "horizontal_size"
          THEN Clamp(e.num, SliderMin, SliderMax) ELSE horizontal_size
    /\ vertical_scale' =
          IF e.field = "vertical_scale"
          THEN Clamp(e.num, SliderMin, SliderMax) ELSE vertical_scale

-----------------------------------------------------------------------------
(* The GUI thread: one frame of App::update, app.rs 581-606 *)

\* the worker thread runs: its closure holds the receiver of the interrupt
\* channel and the sender of the promise
Live(w) == w.pc \notin {"unused", "done"}

\* a drain that keeps the first message it takes
OldestPending ==
    IF progress_channel = <<>> THEN progress ELSE progress_channel[1]

\* draw_progress 480-482: while let Ok(p) = try_recv() { self.progress = p }
Drained ==
    IF progress_channel = <<>> THEN progress
    ELSE progress_channel[Len(progress_channel)]

\* what the held promise is: p.ready()
Ready == IF promise THEN worker.result ELSE "none"

StopShown == promise /\ Ready = "pending"
OkShown == promise /\ Ready \notin {"pending", "Ok"}

\* draw_progress 488-530: what the match on p.ready() draws
Rendered ==
    IF ~promise THEN "nothing"
    ELSE IF Ready = "Ok" THEN "Finished bar"
    ELSE IF Ready = "pending" THEN "Stop button and bar"
    ELSE "Error label and ok button"

\* draw_progress that clears the promise from 1.0 on, that is when
\* ("Finished", 1.0) arrives
ClearAtFinished(click) ==
    /\ progress' = Drained
    /\ progress_channel' = <<>>
    /\ promise' = IF Drained.frac >= F_1_0 \/ (OkShown /\ click = "ok")
                  THEN FALSE ELSE promise
    /\ worker' = IF StopShown /\ click = "Stop" /\ gen_interrupt /\ Live(worker)
                 THEN [worker EXCEPT !.interrupts = @ + 1]
                 ELSE worker
    /\ UNCHANGED <<gen_interrupt, overlap>>

\* draw_progress that clears the promise on the ok click only
ClearOnlyOnOk(click) ==
    /\ progress' = Drained
    /\ progress_channel' = <<>>
    /\ promise' = IF OkShown /\ click = "ok" THEN FALSE ELSE promise
    /\ worker' = IF StopShown /\ click = "Stop" /\ gen_interrupt /\ Live(worker)
                 THEN [worker EXCEPT !.interrupts = @ + 1]
                 ELSE worker
    /\ UNCHANGED <<gen_interrupt, overlap>>

\* draw_progress 479-537 in a frame without a Generate click: the channel
\* is drained, "ok" and a value above 1.0 clear the promise, Stop sends ()
\* on the interrupt channel (an error when its receiver is gone).
draw_progress(click) ==
    /\ progress' = Drained
    /\ progress_channel' = <<>>
    /\ promise' = IF Drained.frac > F_1_0 \/ (OkShown /\ click = "ok")
                  THEN FALSE ELSE promise
    /\ worker' = IF StopShown /\ click = "Stop" /\ gen_interrupt /\ Live(worker)
                 THEN [worker EXCEPT !.interrupts = @ + 1]
                 ELSE worker
    /\ UNCHANGED <<gen_interrupt, overlap>>

\* the thread that run_converter spawns, with its clones of the settings
Spawned ==
    Upd(NoRun, [ pc           |-> "read",
                 out_file     |-> out_file',
                 is_clipboard |-> out_clipboard',
                 options      |-> options',
                 first        |-> Msg("Reading", F_0_0),
                 last         |-> Msg("Reading", F_0_0) ])

\* run_converter 136-271, called by draw_submit after the frame's
\* draw_progress drained the channel: the clones, the new interrupt
\* channel and, when no promise is held, progress("Reading", 0.) and the
\* spawn of the worker.  draw_submit returns at 544 when a promise is held,
\* so get_or_insert_with at 151 always inserts.
run_converter ==
    /\ gen_interrupt' = TRUE
    /\ progress' = Drained
    /\ IF ~promise
       THEN /\ progress_channel' = <<Msg("Reading", F_0_0)>>
            /\ worker' = Spawned
            /\ overlap' = (overlap \/ Live(worker))
            /\ promise' = TRUE
       ELSE /\ progress_channel' = <<>>
            /\ UNCHANGED <<worker, overlap, promise>>

\* draw_submit 539-566: the button is drawn when no promise is held and a
\* heightmap or a colormap is selected
GenerateShown == ~promise /\ (heightmaps' > 0 \/ colormap')

Clicks == {"none", "Stop", "ok", "Generate"}

\* one frame: draw_settings, draw_progress and, when that rendered nothing,
\* draw_submit.  A frame takes one input: an edit or a click on a button
\* that the frame draws.
update(e, click) ==
    /\ front = "gui"
    /\ click # "none" => e = NoEdit
    /\ click = "Stop" => StopShown /\ worker.interrupts < MaxStops
    /\ click = "ok" => OkShown
    /\ draw_settings(e)
    /\ click = "Generate" => GenerateShown
    /\ IF click = "Generate" THEN run_converter ELSE draw_progress(click)
    /\ UNCHANGED <<front, build, gui_options, cli>>

-----------------------------------------------------------------------------
(* What the worker calls outside these files *)

\* gui::util::maps_from_files returns Ok((heightmap, colormap)) or Err(text)
MapsResults == {"Ok", "Err"}

\* the p of the generator's next callback call, in quarters: a
\* non-decreasing fraction of [0, 1]
GenCallbackArgs(w) == {k \in 0..4 : k >= w.p}

\* gen_opt_heightmap returns Ok(bricks) or Err(text) ...
GenResults == {"Ok", "Err"}

\* ... and returns an Err as soon as its callback returns false
GenStopsOnFalse == TRUE

\* to_brz_vec, std::fs::write, write_brdb and the clipboard calls
IoResults == {"Ok", "Err"}

-----------------------------------------------------------------------------
(* The worker thread: the closure of thread::spawn, app.rs 157-267 *)

\* progress(status, p): progress_tx.send((status, p)).unwrap()
Sent(w, msg) ==
    Upd(w, [ first |-> IF w.first = NoMsg THEN msg ELSE w.first,
             last  |-> msg ])

\* a return that leaves the receiver of the interrupt channel alive, with
\* the requests that nobody read
ReturnedKeepingReceiver(w) ==
    Upd(w, [ pc |-> "done", out_file |-> <<>>, is_clipboard |-> FALSE,
             options |-> NoOptions ])

\* the closure returns: its clones and the receiver of the interrupt
\* channel are dropped
Returned(w) ==
    Upd(w, [ pc |-> "done", interrupts |-> 0, out_file |-> <<>>,
             is_clipboard |-> FALSE, options |-> NoOptions ])

\* sender.send(value) without the return: the worker stays where it is
SentWithoutReturn(w, value) ==
    Upd(w, [sends |-> w.sends + 1, result |-> value])

\* sender.send(value) followed by the return of the closure
Resolved(w, value) ==
    Returned(Upd(w, [sends |-> w.sends + 1, result |-> value]))

\* is_stopped(): rx.try_recv().is_ok(), which takes one () off the channel
is_stopped(w) == w.interrupts > 0

Polled(w) ==
    Upd(w, [interrupts |-> IF w.interrupts > 0 THEN w.interrupts - 1 ELSE 0])

\* stop_if_stopped!() without its return: the Err is sent and the worker
\* goes on
FallThroughStop(w, point, next) ==
    IF is_stopped(w)
    THEN Upd(Polled(w), [observed |-> point, sends |-> w.sends + 1,
                         result |-> "Stopped by user", pc |-> next])
    ELSE Upd(w, [pc |-> next])

\* stop_if_stopped!() 158-165 at polling point `point`, continuing at `next`
stop_if_stopped(w, point, next) ==
    IF is_stopped(w)
    THEN Resolved(Upd(Polled(w), [observed |-> point]), "Stopped by user")
    ELSE Upd(w, [pc |-> next])

WorkerFrame == UNCHANGED <<front, build, appSettings, progress, promise,
                           gen_interrupt, overlap, gui_options, cli>>

Send(w, msg) ==
    /\ progress_channel' = Append(progress_channel, msg)
    /\ worker' = Sent(w, msg)

\* 167-175
WReadMaps(res) ==
    /\ front = "gui" /\ worker.pc = "read"
    /\ worker' = IF res = "Ok" THEN Upd(worker, [pc |-> "stop1"])
                 ELSE Resolved(worker, "read error")
    /\ UNCHANGED progress_channel /\ WorkerFrame

\* 177
WStopAfterRead ==
    /\ front = "gui" /\ worker.pc = "stop1"
    /\ worker' = stop_if_stopped(worker, "after_read", "gen0")
    /\ UNCHANGED progress_channel /\ WorkerFrame

\* 178
WSendGenerating ==
    /\ front = "gui" /\ worker.pc = "gen0"
    /\ Send(Upd(worker, [pc |-> "gen"]), Msg("Generating", F_0_10))
    /\ WorkerFrame

\* 180-181: the generator calls the callback, which reports
WGenCallback(k) ==
    /\ front = "gui" /\ worker.pc = "gen"
    /\ worker.calls < MaxCallbacks
    /\ k \in GenCallbackArgs(worker)
    /\ Send(Upd(worker, [pc |-> "poll", calls |-> worker.calls + 1, p |-> k]),
            Msg("Generating", GeneratingFraction(k)))
    /\ WorkerFrame

\* 182-188: the callback returns !is_stopped(); on false the generator
\* returns Err and the worker resolves with it
GenPolled(w) ==
    IF is_stopped(w) /\ GenStopsOnFalse
    THEN Resolved(Upd(Polled(w), [gen |-> "Cancelled", observed |-> "callback",
                                  calls |-> 0, p |-> 0]),
                  "generation cancelled")
    ELSE Upd(Polled(w), [pc |-> "gen"])

WGenPoll ==
    /\ front = "gui" /\ worker.pc = "poll"
    /\ worker' = GenPolled(worker)
    /\ UNCHANGED progress_channel /\ WorkerFrame

\* 180-189: gen_opt_heightmap returns
GenReturned(w, res) ==
    LET g == Upd(w, [gen |-> res, calls |-> 0, p |-> 0])
    IN  IF res = "Ok" THEN Upd(g, [pc |-> "stop2"])
        ELSE Resolved(g, "generation error")

WGenReturn(res) ==
    /\ front = "gui" /\ worker.pc = "gen"
    /\ worker' = GenReturned(worker, res)
    /\ UNCHANGED progress_channel /\ WorkerFrame

\* the worker without the stop check after generation
NoCheckAfterGeneration(w) == Upd(w, [pc |-> "writing"])

\* 190
AfterGeneration(w) == stop_if_stopped(w, "after_gen", "writing")

WStopAfterGen ==
    /\ front = "gui" /\ worker.pc = "stop2"
    /\ worker' = AfterGeneration(worker)
    /\ UNCHANGED progress_channel /\ WorkerFrame

\* 192-194: progress("Writing", 0.95); bricks_to_save(bricks)
WSendWriting ==
    /\ front = "gui" /\ worker.pc = "writing"
    /\ Send(Upd(worker, [pc |-> "output", saves |-> worker.saves + 1]),
            Msg("Writing", F_0_95))
    /\ WorkerFrame

\* the dispatch without to_lowercase()
CaseSensitiveGuiOutput(w, res) ==
    IF ends_with(w.out_file, DotBrz)
    THEN LET e == Upd(w, [encoder |-> "brz", encodes |-> w.encodes + 1])
         IN  IF res = "Ok" THEN Upd(e, [pc |-> "brz_write"])
             ELSE Resolved(e, "failed to encode brz")
    ELSE IF ends_with(w.out_file, DotBrdb)
    THEN LET e == Upd(w, [encoder |-> "brdb", encodes |-> w.encodes + 1,
                          writes |-> w.writes + 1])
         IN  IF res = "Ok" THEN Upd(e, [pc |-> "clipboard", written |-> TRUE])
             ELSE Resolved(e, "failed to write file")
    ELSE Resolved(w, "output file must end with .brz or .brdb")

\* 196-220: the dispatch on the name; to_brz_vec, or write_brdb which
\* writes the file itself, or the error
GuiOutput(w, res) ==
    LET kind == OutputKind(w.out_file)
    IN  CASE kind = "brz" ->
               LET e == Upd(w, [encoder |-> "brz", encodes |-> w.encodes + 1])
               IN  IF res = "Ok" THEN Upd(e, [pc |-> "brz_write"])
                   ELSE Resolved(e, "failed to encode brz")
          [] kind = "brdb" ->
               LET e == Upd(w, [encoder |-> "brdb", encodes |-> w.encodes + 1,
                                writes |-> w.writes + 1])
               IN  IF res = "Ok" THEN Upd(e, [pc |-> "clipboard", written |-> TRUE])
                   ELSE Resolved(e, "failed to write file")
          [] OTHER ->
               Resolved(w, "output file must end with .brz or .brdb")

WOutput(res) ==
    /\ front = "gui" /\ worker.pc = "output"
    /\ OutputKind(worker.out_file) = "other" => res = "Ok"
    /\ worker' = GuiOutput(worker, res)
    /\ UNCHANGED progress_channel /\ WorkerFrame

\* a write that is tried again when it fails
RetryGuiWriteBrz(w, res) ==
    IF res = "Ok"
    THEN Upd(w, [writes |-> w.writes + 1, pc |-> "clipboard", written |-> TRUE])
    ELSE Resolved(Upd(w, [writes |-> w.writes + 2]), "failed to write file")

\* a write whose Err is dropped: the worker goes on as after a good write
IgnoredWriteError(w, res) ==
    Upd(w, [writes |-> w.writes + 1, pc |-> "clipboard", written |-> (res = "Ok")])

\* 205-209: std::fs::write(&out_file, brz)
GuiWriteBrz(w, res) ==
    LET e == Upd(w, [writes |-> w.writes + 1])
    IN  IF res = "Ok" THEN Upd(e, [pc |-> "clipboard", written |-> TRUE])
        ELSE Resolved(e, "failed to write file")

WWriteBrz(res) ==
    /\ front = "gui" /\ worker.pc = "brz_write"
    /\ worker' = GuiWriteBrz(worker, res)
    /\ UNCHANGED progress_channel /\ WorkerFrame

\* 222-258: the clipboard calls exist in a Windows build only
WClipboard(res) ==
    /\ front = "gui" /\ worker.pc = "clipboard"
    /\ ~(worker.is_clipboard /\ build.windows) => res = "Ok"
    /\ worker' = IF res = "Ok" THEN Upd(worker, [pc |-> "stop3"])
                 ELSE Resolved(worker, "failed to open clipboard")
    /\ UNCHANGED progress_channel /\ WorkerFrame

\* 260
WStopAfterWrite ==
    /\ front = "gui" /\ worker.pc = "stop3"
    /\ worker' = stop_if_stopped(worker, "after_write", "finished")
    /\ UNCHANGED progress_channel /\ WorkerFrame

\* the worker going on to sender.send(Ok(())) without the message
NoFinishedMessage ==
    /\ front = "gui" /\ worker.pc = "finished"
    /\ worker' = Upd(worker, [pc |-> "resolve"])
    /\ UNCHANGED progress_channel /\ WorkerFrame

\* 261
WSendFinished ==
    /\ front = "gui" /\ worker.pc = "finished"
    /\ Send(Upd(worker, [pc |-> "resolve"]), Msg("Finished", F_1_0))
    /\ WorkerFrame

\* 264: sender.send(Ok(()))
WResolveOk ==
    /\ front = "gui" /\ worker.pc = "resolve"
    /\ worker' = Upd(worker, [pc |-> "sleep", sends |-> worker.sends + 1,
                              result |-> "Ok"])
    /\ UNCHANGED progress_channel /\ WorkerFrame

\* 265-267: after the sleep, progress("", 2.0) and the end of the closure
WSentinel ==
    /\ front = "gui" /\ worker.pc = "sleep"
    /\ Send(Returned(worker), Msg("", F_2_0))
    /\ WorkerFrame

Worker ==
    \/ \E res \in MapsResults : WReadMaps(res)
    \/ WStopAfterRead
    \/ WSendGenerating
    \/ \E k \in 0..4 : WGenCallback(k)
    \/ WGenPoll
    \/ \E res \in GenResults : WGenReturn(res)
    \/ WStopAfterGen
    \/ WSendWriting
    \/ \E res \in IoResults : WOutput(res)
    \/ \E res \in IoResults : WWriteBrz(res)
    \/ \E res \in IoResults : WClipboard(res)
    \/ WStopAfterWrite
    \/ WSendFinished
    \/ WResolveOk
    \/ WSentinel

Frame == front = "gui" /\ \E e \in RunEdits, click \in Clicks : update(e, click)

NextGui == Frame \/ Worker

InitGui ==
    /\ front = "gui"
    /\ build \in [windows : BOOLEAN, overflow_checks : {FALSE}]
    /\ InitApp
    /\ cli = CliStart

-----------------------------------------------------------------------------
(* options() on its own: the settings panel and the GenOptions built from *)
(* it, as run_converter builds them at app.rs 139                          *)

OptEdit ==
    /\ front = "opt"
    /\ \E e \in OptionEdits : draw_settings(e)
    /\ UNCHANGED <<front, build, progress, progress_channel, promise,
                   gen_interrupt, worker, overlap, gui_options, cli>>

\* the GenOptions, kept with the settings they were built from
OptOptions ==
    /\ front = "opt"
    /\ gui_options' = [ built    |-> TRUE,
                        mode     |-> mode,
                        size_in  |-> horizontal_size,
                        scale_in |-> vertical_scale,
                        opt      |-> optimization,
                        files    |-> <<heightmaps, colormap>>,
                        out      |-> options ]
    /\ UNCHANGED <<front, build, appSettings, progress, progress_channel,
                   promise, gen_interrupt, worker, overlap, cli>>

NextOpt == OptEdit \/ OptOptions

-----------------------------------------------------------------------------
(* The command line program: main(), main.rs 15-169 *)

CliFrame == UNCHANGED <<front, build, appSettings, progress, progress_channel,
                        promise, gen_interrupt, worker, overlap, gui_options>>

CliEnd(c, outcome) == Upd(c, [pc |-> "done", outcome |-> outcome])

\* 45-95: the files, the output name and the GenOptions; an expect() or an
\* overflow panics
CliParsed(c, argv, checks) ==
    LET o == CliGenOptions(argv, checks)
        a == Upd(c, [ argv         |-> argv,
                      colormap_src |-> IF argv.colormap THEN "colormap"
                                       ELSE "heightmap_files[0]",
                      out_file     |-> IF argv.output.given THEN argv.output.val
                                       ELSE CliDefaultOutFile,
                      options      |-> o ])
    IN  IF o.built THEN Upd(a, [pc |-> "read_colormap"]) ELSE CliEnd(a, "panic")

CliParse ==
    /\ front = "cli" /\ cli.pc = "start"
    /\ \E argv \in Argvs : cli' = CliParsed(cli, argv, build.overflow_checks)
    /\ CliFrame

\* 99-118: the colormap is read, or main returns with an error
CliReadColormap ==
    /\ front = "cli" /\ cli.pc = "read_colormap"
    /\ \E res \in IoResults :
          cli' = IF res = "Ok" THEN Upd(cli, [pc |-> "read_heightmap"])
                 ELSE CliEnd(cli, "Error reading colormap")
    /\ CliFrame

\* the heightmap files decoded first, img looked at afterwards
DecodedBeforeImgTest(c, images, res) ==
    LET d == Upd(c, [decodes |-> c.decodes + 1, decode_hdmap |-> c.options.hdmap])
    IN  IF ~images THEN CliEnd(c, "Unsupported heightmap format")
        ELSE IF res # "Ok" THEN CliEnd(d, "Error reading heightmap")
        ELSE IF c.options.img THEN Upd(d, [pc |-> "generate", heightmap |-> "flat"])
        ELSE Upd(d, [pc |-> "generate", heightmap |-> "png"])

\* 120-139: with every input an image, the flat heightmap in img mode and
\* otherwise HeightmapPNG::new(all files, options.hdmap)
CliHeightmapRead(c, images, res) ==
    LET d == Upd(c, [decodes |-> c.decodes + 1, decode_hdmap |-> c.options.hdmap])
    IN  IF ~images THEN CliEnd(c, "Unsupported heightmap format")
        ELSE IF c.options.img THEN Upd(c, [pc |-> "generate", heightmap |-> "flat"])
        ELSE IF res = "Ok" THEN Upd(d, [pc |-> "generate", heightmap |-> "png"])
        ELSE CliEnd(d, "Error reading heightmap")

CliReadHeightmap ==
    /\ front = "cli" /\ cli.pc = "read_heightmap"
    /\ \E images \in BOOLEAN, res \in IoResults :
          cli' = CliHeightmapRead(cli, images, res)
    /\ CliFrame

\* 141-142: gen_opt_heightmap(.., |_| true).expect(..)
CliGenerate ==
    /\ front = "cli" /\ cli.pc = "generate"
    /\ \E res \in GenResults :
          cli' = IF res = "Ok" THEN Upd(cli, [pc |-> "output", gen |-> "Ok"])
                 ELSE CliEnd(Upd(cli, [gen |-> "Err"]), "panic")
    /\ CliFrame

\* 144-166: bricks_to_save and the dispatch on the name
CliOutputStep(c, res) ==
    LET kind == OutputKind(c.out_file)
        d    == Upd(c, [saves |-> c.saves + 1])
    IN  CASE kind = "brz" ->
               LET e == Upd(d, [encoder |-> "brz", encodes |-> d.encodes + 1])
               IN  IF res = "Ok" THEN Upd(e, [pc |-> "brz_write"])
                   ELSE CliEnd(e, "failed to encode brz")
          [] kind = "brdb" ->
               LET e == Upd(d, [encoder |-> "brdb", encodes |-> d.encodes + 1,
                                writes |-> d.writes + 1])
               IN  IF res = "Ok" THEN CliEnd(e, "Done!")
                   ELSE CliEnd(e, "failed to write file")
          [] OTHER ->
               CliEnd(d, "output file must end with .brz or .brdb")

CliOutput ==
    /\ front = "cli" /\ cli.pc = "output"
    /\ \E res \in IoResults : cli' = CliOutputStep(cli, res)
    /\ CliFrame

\* 154-157: std::fs::write(&out_file, brz)
CliWriteBrzStep(c, res) ==
    LET e == Upd(c, [writes |-> c.writes + 1])
    IN  IF res = "Ok" THEN CliEnd(e, "Done!") ELSE CliEnd(e, "failed to write file")

CliWriteBrz ==
    /\ front = "cli" /\ cli.pc = "brz_write"
    /\ \E res \in IoResults : cli' = CliWriteBrzStep(cli, res)
    /\ CliFrame

NextCli ==
    \/ CliParse
    \/ CliReadColormap
    \/ CliReadHeightmap
    \/ CliGenerate
    \/ CliOutput
    \/ CliWriteBrz

-----------------------------------------------------------------------------
(* Specifications *)

InitCli ==
    /\ front = "cli"
    /\ build \in [windows : {FALSE}, overflow_checks : BOOLEAN]
    /\ InitApp
    /\ cli = CliStart

InitOpt ==
    /\ front = "opt"
    /\ build \in [windows : {FALSE}, overflow_checks : BOOLEAN]
    /\ InitApp
    /\ cli = CliStart

\* the worker and the frames of the GUI
SpecGui == InitGui /\ [][NextGui]_vars

\* the command line program
SpecCli == InitCli /\ [][NextCli]_vars

\* the GenOptions of both front-ends
SpecFront == (InitOpt \/ InitCli) /\ [][NextOpt \/ NextCli]_vars

\* both programs, each run on its own
Init == InitGui \/ InitCli

Next == NextGui \/ NextCli

Spec == Init /\ [][Next]_vars

-----------------------------------------------------------------------------
(* The claims *)

StoppedEarly == {"after_read", "callback", "after_gen"}

\* a step of the running worker that sends one progress message
SendsMessage ==
    Live(worker) /\ Len(progress_channel') = Len(progress_channel) + 1

\* C1: a GUI run that ended as stopped by the user (a stop_if_stopped!()
\* resolved it, or the generator aborted on a false callback result) has
\* written no byte to the output file, whenever the Stop click arrived.
C1_StoppedRunWroteNothing ==
    (worker.pc = "done" /\ worker.observed # "none") => worker.writes = 0

\* C2: bricks_to_save and the encoders run only after gen_opt_heightmap
\* returned Ok and the stop check after it saw no interrupt: in every state
\* a run that saved or encoded has a generation result of Ok and no stop
\* observed up to that check, and a worker that reaches the check with an
\* interrupt waiting ends the run as stopped without saving or encoding.
C2_EncoderOnlyAfterOkAndCheck ==
    [][ /\ (worker'.saves > 0 \/ worker'.encodes > 0 \/ worker'.encoder # "none")
            => (worker'.gen = "Ok" /\ worker'.observed \notin StoppedEarly)
        /\ (worker'.gen \in {"Err", "Cancelled"} \/ worker'.observed \in StoppedEarly)
            => (worker'.saves = 0 /\ worker'.encodes = 0 /\ worker'.writes = 0)
        /\ (worker.pc = "stop2" /\ worker.interrupts > 0 /\ worker'.pc # "stop2")
            => /\ worker'.pc = "done"
               /\ worker'.result = "Stopped by user"
               /\ worker'.observed = "after_gen" ]_vars

C2_EncodedAfterCheck ==
    /\ worker.encodes > 0 /\ worker.saves > 0
    /\ worker.gen = "Ok" /\ worker.observed = "none"

\* C3: every GenOptions built by a front-end has at most one of quadtree
\* and greedy set, and both are false exactly when the no-optimization
\* strategy is selected (which the command line cannot select).
C3_StrategyFlagsExclusive ==
    /\ (gui_options.built /\ gui_options.out.built) =>
          /\ ~(gui_options.out.quadtree /\ gui_options.out.greedy)
          /\ (~gui_options.out.quadtree /\ ~gui_options.out.greedy)
                <=> (gui_options.opt = "None")
    /\ cli.options.built =>
          /\ ~(cli.options.quadtree /\ cli.options.greedy)
          /\ cli.options.quadtree \/ cli.options.greedy

\* the asset of each brick family
FamilyAsset(m) ==
    CASE m = "Default"    -> "PB_DEFAULT_BRICK"
      [] m = "Tile"       -> "PB_DEFAULT_TILE"
      [] m = "SmoothTile" -> "PB_DEFAULT_SMOOTH_TILE"
      [] m = "Stud"       -> "PB_DEFAULT_STUDDED"
      [] m = "Micro"      -> "PB_DEFAULT_MICRO_BRICK"

\* the command line that selects family m and nothing else
FamilyArgv(m) ==
    [ size |-> Absent, vertical |-> Absent,
      output |-> [given |-> FALSE, val |-> <<>>], colormap |-> FALSE,
      micro |-> (m = "Micro"), tile |-> (m = "Tile"),
      smooth |-> (m = "SmoothTile"), stud |-> (m = "Stud"),
      greedy |-> FALSE, img |-> FALSE, hdmap |-> FALSE ]

\* C4: the asset that options() yields for brick mode m is the asset of
\* family m, the same asset that the command line yields for the flag of
\* m, and two modes share an asset in the GUI only if they share it on the
\* command line.
C4_AssetTableSame ==
    (gui_options.built /\ gui_options.out.built) =>
        /\ gui_options.out.asset = FamilyAsset(gui_options.mode)
        /\ gui_options.out.asset = CliGenOptions(FamilyArgv(gui_options.mode), FALSE).asset
        /\ \A m \in BrickModes :
              CliGenOptions(FamilyArgv(m), FALSE).asset
                    # CliGenOptions(FamilyArgv(gui_options.mode), FALSE).asset
              => GuiGenOptions(m, 1, 1, "Quad", 0, FALSE, FALSE).asset
                    # gui_options.out.asset

\* C5: GenOptions.size is the size entered for the micro family and five
\* times the size entered for every other family, in both front-ends; the
\* multiplier is 1 exactly when GenOptions.micro is set.
C5_SizeTimesFive ==
    /\ (gui_options.built /\ gui_options.out.built) =>
          /\ gui_options.out.size =
                IF gui_options.mode = "Micro" THEN gui_options.size_in
                ELSE 5 * gui_options.size_in
          /\ gui_options.out.micro <=> (gui_options.mode = "Micro")
    /\ cli.options.built =>
          cli.options.size =
              IF cli.options.micro THEN value_or(cli.argv.size, 1)
              ELSE 5 * value_or(cli.argv.size, 1)

\* C6: every GenOptions handed to gen_opt_heightmap was built from a size
\* in 1..100 and a scale in 1..100.
C6_SizeAndScaleInRange ==
    /\ (gui_options.built /\ gui_options.out.built) =>
          /\ gui_options.size_in \in 1..100
          /\ gui_options.scale_in \in 1..100
    /\ cli.gen # "none" =>
          /\ value_or(cli.argv.size, 1) \in 1..100
          /\ value_or(cli.argv.vertical, 1) \in 1..100

\* the place of a label in Reading, Generating, Writing, Finished; the
\* empty label of the end-of-run message comes after them
StageRank(label) ==
    CASE label = "none"       -> 0
      [] label = "Reading"    -> 0
      [] label = "Generating" -> 1
      [] label = "Writing"    -> 2
      [] label = "Finished"   -> 3
      [] OTHER                -> 4

\* C7: within one GUI run the first message is ("Reading", 0), a message
\* never carries an earlier stage than the message before it, Writing (and
\* what follows it) is sent only after the generation returned Ok, and the
\* run ends in exactly one outcome: the promise is sent to exactly once,
\* and Ok only after Finished was sent.
C7_StagesInOrder ==
    [][ /\ (worker'.pc = "read" /\ worker.pc # "read")
            => progress_channel' = <<Msg("Reading", F_0_0)>>
        /\ worker'.pc # "unused" => worker'.first = Msg("Reading", F_0_0)
        /\ SendsMessage
            => /\ progress_channel'[Len(progress_channel')] = worker'.last
               /\ StageRank(worker'.last.label) >= StageRank(worker.last.label)
        /\ StageRank(worker'.last.label) >= 2 => worker'.gen = "Ok"
        /\ worker'.sends <= 1
        /\ (worker'.result = "pending") <=> (worker'.sends = 0)
        /\ worker'.pc = "done" => worker'.sends = 1
        /\ worker'.result = "Ok" => StageRank(worker'.last.label) >= 3 ]_vars

C7_RunWentThroughAllStages ==
    /\ worker.pc = "done" /\ worker.result = "Ok"
    /\ worker.last = Msg("", F_2_0)
    /\ worker.first = Msg("Reading", F_0_0)

\* C8: with a generator whose p never decreases and stays in [0, 1], every
\* fraction the worker sends lies in [0, 1] and no fraction sent is smaller
\* than the one sent before it in the run.
C8_FractionsMonotoneInUnit ==
    [][ SendsMessage =>
          /\ F_0_0 <= worker'.last.frac /\ worker'.last.frac <= F_1_0
          /\ worker'.last.frac >= worker.last.frac ]_vars

\* the encoder that the claim gives a name: by its lower-cased ending
NamedKind(name) ==
    LET low == to_lowercase(name)
    IN  IF ends_with(low, DotBrz) THEN "brz"
        ELSE IF ends_with(low, DotBrdb) THEN "brdb" ELSE "other"

ExtensionError == "output file must end with .brz or .brdb"

\* what the output step from record a to record b must be for a name;
\* `error` is the final text of b (the promise, the outcome), `ended`
\* whether b is a finished run
OutputStepAsNamed(name, a, b, error, ended) ==
    CASE NamedKind(name) = "brz" ->
           /\ b.encoder = "brz" /\ b.encodes = a.encodes + 1
           /\ b.writes = a.writes
           /\ b.pc = "brz_write" \/ (ended /\ error = "failed to encode brz")
      [] NamedKind(name) = "brdb" ->
           /\ b.encoder = "brdb" /\ b.encodes = a.encodes + 1
           /\ b.writes = a.writes + 1
           /\ error # ExtensionError
      [] OTHER ->
           /\ b.encoder = "none" /\ b.encodes = a.encodes
           /\ b.writes = a.writes
           /\ ended /\ error = ExtensionError

\* C9: in the GUI worker and in the command line alike, the lower-cased
\* output name alone decides the output step: .brz calls to_brz_vec and
\* then writes the file once, .brdb calls write_brdb, and any other name
\* calls no encoder, writes nothing and ends the run with the error
\* "output file must end with .brz or .brdb".
C9_EncoderByLowercasedName ==
    [][ /\ (worker.pc = "output" /\ worker'.pc # "output")
            => OutputStepAsNamed(worker.out_file, worker, worker',
                                 worker'.result, worker'.pc = "done")
        /\ (worker.pc = "brz_write" /\ worker'.pc # "brz_write")
            => /\ NamedKind(worker.out_file) = "brz"
               /\ worker'.writes = worker.writes + 1
               /\ worker'.encodes = worker.encodes
        /\ (cli.pc = "output" /\ cli'.pc # "output")
            => OutputStepAsNamed(cli.out_file, cli, cli',
                                 cli'.outcome, cli'.pc = "done")
        /\ (cli.pc = "brz_write" /\ cli'.pc # "brz_write")
            => /\ NamedKind(cli.out_file) = "brz"
               /\ cli'.writes = cli.writes + 1
               /\ cli'.encodes = cli.encodes ]_vars

C9_UppercaseNameEncoded ==
    /\ worker.out_file = <<"o", ".", "B", "R", "D", "B">>
    /\ worker.encoder = "brdb" /\ worker.writes = 1
    /\ worker.pc = "clipboard"

\* C10: on the .brz path the file is written only after to_brz_vec
\* returned Ok; a failed encoding leaves the file untouched; and a run
\* encodes at most once and writes at most once, in the GUI worker and in
\* the command line.
C10_BrzWrittenOnceAfterEncoding ==
    /\ worker.encodes <= 1 /\ worker.writes <= 1
    /\ worker.writes <= worker.encodes
    /\ worker.pc = "brz_write" => (worker.encodes = 1 /\ worker.writes = 0)
    /\ worker.result = "failed to encode brz" => worker.writes = 0
    /\ cli.encodes <= 1 /\ cli.writes <= 1
    /\ cli.writes <= cli.encodes
    /\ cli.pc = "brz_write" => (cli.encodes = 1 /\ cli.writes = 0)
    /\ cli.outcome = "failed to encode brz" => cli.writes = 0

C10_EncodingFailed ==
    /\ worker.result = "failed to encode brz"
    /\ worker.encoder = "brz" /\ worker.encodes = 1

\* the Err texts of the failures of a run (a Stop is not among them)
Failures ==
    {"read error", "generation error", "failed to encode brz",
     "failed to write file", ExtensionError, "failed to open clipboard"}

\* the step of the worker that can fail, by its place in the closure
FailingStep(pc) == pc \in {"read", "gen", "output", "brz_write", "clipboard"}

\* C11: a failure of the GUI worker (reading, generation, encoding, file
\* write, unsupported extension) resolves the promise with the Err text
\* in the very step that failed and ends the worker there; the ended run
\* sends no further progress message, encodes, writes and resolves no more,
\* and the failed step was attempted once.
C11_FailureEndsRun ==
    [][ /\ (worker.result = "pending" /\ worker'.result \in Failures)
            => /\ FailingStep(worker.pc)
               /\ worker'.pc = "done" /\ worker'.sends = 1
               /\ worker'.last = worker.last
               /\ worker'.encodes <= 1 /\ worker'.writes <= 1
               /\ worker'.saves = worker.saves
        /\ (worker.pc = "done" /\ worker.result \in Failures)
            => \/ worker' = worker
               \/ /\ worker'.pc = "read" /\ worker'.result = "pending"
                  /\ worker'.sends = 0 /\ worker'.encodes = 0
                  /\ worker'.writes = 0
                  /\ progress_channel' = <<Msg("Reading", F_0_0)>>
        /\ worker'.result \in Failures => worker'.pc = "done" ]_vars

C11_WriteFailed ==
    /\ worker.pc = "done" /\ worker.result = "failed to write file"
    /\ worker.encoder = "brz" /\ worker.encodes = 1 /\ worker.writes = 1
    /\ worker.last = Msg("Writing", F_0_95)

\* C12: a run stopped by the user (at a stop_if_stopped!() or by the
\* generator's callback) is not shown as an error: while its promise is
\* held, draw_progress does not draw it in the arm of Some(Err(e)) that
\* shows failures.
C12_StoppedIsNoError ==
    (promise /\ worker.pc = "done" /\ worker.observed # "none")
        => Rendered # "Error label and ok button"

\* C13: one worker at a time uses the progress channel.  A worker is
\* spawned only while no promise is held and no worker runs, into a channel
\* that then holds its ("Reading", 0) alone; a running worker's promise is
\* held; and the promise is dropped only when the worker has ended,
\* resolved, and its last message has been received.
C13_OneWorkerPerChannel ==
    [][ /\ (worker'.pc = "read" /\ worker.pc # "read")
            => /\ ~promise /\ ~Live(worker)
               /\ progress_channel' = <<Msg("Reading", F_0_0)>>
        /\ (promise /\ ~promise')
            => /\ ~Live(worker) /\ worker.result # "pending"
               /\ progress_channel' = <<>>
               /\ progress' = worker.last
        /\ Live(worker') => promise'
        /\ ~overlap' ]_vars

C13_SecondRunStarted ==
    /\ worker.pc = "gen" /\ promise
    /\ progress = Msg("", F_2_0)
    /\ progress_channel = <<Msg("Reading", F_0_0), Msg("Generating", F_0_10)>>

\* C14: no Stop request is lost: a run that resolved Ok has no () left
\* unread on its interrupt channel (Stop is offered, and a request is sent,
\* only while the promise is pending, so whatever is left was sent while
\* the worker ran).
C14_NoStopLost ==
    worker.result = "Ok" => worker.interrupts = 0

\* C15: options() sets img exactly when no heightmap and a colormap are
\* selected; a worker is spawned only with a heightmap or a colormap
\* selected, so its GenOptions have img set when only a colormap is
\* selected and never when a heightmap is.
C15_ImgIffOnlyColormap ==
    [][ /\ options.built
        /\ options.img <=> (heightmaps = 0 /\ colormap)
        /\ (worker'.pc = "read" /\ worker.pc # "read")
            => /\ heightmaps > 0 \/ colormap
               /\ worker'.options.built
               /\ worker'.options.img <=> (heightmaps = 0)
               /\ heightmaps' = heightmaps /\ colormap' = colormap ]_vars

C15_ImageRunStarted ==
    /\ worker.pc = "read" /\ worker.options.built /\ worker.options.img
    /\ heightmaps = 0 /\ colormap

\* C16: the command line hands the generator the flat heightmap of the
\* colormap's size when img is set, with no heightmap file decoded, and
\* otherwise the heightmap decoded once from the input files with the
\* hdmap option.
C16_FlatHeightmapInImgMode ==
    /\ (cli.options.built /\ cli.options.img) => cli.decodes = 0
    /\ cli.gen # "none" =>
          IF cli.options.img
          THEN cli.heightmap = "flat"
          ELSE /\ cli.heightmap = "png" /\ cli.decodes = 1
               /\ cli.decode_hdmap = cli.argv.hdmap

C16_ImgRunWithHdmap ==
    /\ cli.gen = "Ok" /\ cli.options.img /\ cli.argv.hdmap
    /\ cli.heightmap = "flat" /\ cli.decodes = 0

\* C17: a command line without --colormap runs the generator without a
\* color image: no file is read as the colormap.
C17_NoColormapNoImage ==
    (cli.gen # "none" /\ ~cli.argv.colormap) => cli.colormap_src = "none"

\* C18: a GUI run resolves Ok only with ("Finished", 1.0) as the newest
\* message it sent, and what the run sends after ("Finished", 1.0) has
\* no fraction below 1.0.
C18_FinishedBeforeOk ==
    [][ /\ (worker.result # "Ok" /\ worker'.result = "Ok")
            => /\ worker.last = Msg("Finished", F_1_0)
               /\ progress_channel' = progress_channel
        /\ (worker.last.label = "Finished" /\ SendsMessage)
            => worker'.last.frac >= F_1_0
        /\ (worker.result = "Ok" /\ SendsMessage)
            => worker'.last.frac >= F_1_0 ]_vars

C18_ResolvedAfterFinished ==
    /\ worker.pc = "sleep" /\ worker.result = "Ok"
    /\ worker.last = Msg("Finished", F_1_0)

\* C19: the copy-to-clipboard setting does not change the outcome of a
\* run.  The setting is read at one place only, between the write and the
\* last stop check, and a run without it passes that place unchanged; so
\* every run passes it unchanged, still pending, whatever is_clipboard is.
C19_ClipboardNoInfluence ==
    [][ (worker.pc = "clipboard" /\ worker'.pc # "clipboard")
            => /\ worker'.pc = "stop3"
               /\ worker'.result = "pending" ]_vars

\* C20: a frame's draw_progress empties the progress channel and leaves
\* in self.progress the message sent last (self.progress as it was when
\* nothing was pending); after the frame the channel holds nothing sent
\* before it, only the ("Reading", 0) of a run the frame itself started.
\* A step that is no step of the worker thread is a frame.
C20_DrainKeepsNewest ==
    [][ (worker'.pc = worker.pc \/ (worker'.pc = "read" /\ ~Live(worker)))
            => /\ progress' = IF progress_channel = <<>> THEN progress
                              ELSE progress_channel[Len(progress_channel)]
               /\ \/ progress_channel' = <<>>
                  \/ /\ progress_channel' = <<Msg("Reading", F_0_0)>>
                     /\ worker'.pc = "read" /\ ~Live(worker) ]_vars

C20_NewestReceived ==
    /\ progress = Msg("Writing", F_0_95) /\ progress_channel = <<>>
    /\ worker.pc = "output" /\ worker.first = Msg("Reading", F_0_0)

\* C21: a GUI run resolves Ok only after exactly one write of the output
\* file, which returned Ok; the write is made while ("Writing", 0.95) is
\* the newest message and the promise is pending, so it precedes
\* ("Finished", 1.0) and the Ok.
C21_OkOnlyAfterOneGoodWrite ==
    [][ /\ worker'.result = "Ok" => (worker'.writes = 1 /\ worker'.written)
        /\ worker'.last.label \in {"Finished", ""}
            => (worker'.writes = 1 /\ worker'.written)
        /\ worker'.writes > worker.writes
            => /\ worker.last = Msg("Writing", F_0_95)
               /\ worker.result = "pending" /\ worker.writes = 0
        /\ (worker'.writes > worker.writes /\ ~worker'.written)
            => worker'.result = "failed to write file" ]_vars

C21_WrittenThenOk ==
    /\ worker.result = "Ok" /\ worker.pc = "sleep"
    /\ worker.writes = 1 /\ worker.written /\ worker.encoder = "brz"

\* C22: a Stop click reaches the worker of the run in which it is made,
\* and no other.  run_converter gives the worker it spawns an interrupt
\* channel that holds nothing; a () is put on a channel only by a frame,
\* and only while that channel's worker runs with its promise pending; a
\* worker sees a stop only when its own channel holds a (); and the ()s
\* that a worker did not read are gone with it when it ends.
C22_StopStaysInItsRun ==
    [][ /\ (worker'.pc = "read" /\ worker.pc # "read")
            => (worker'.interrupts = 0 /\ gen_interrupt')
        /\ worker'.interrupts > worker.interrupts
            => /\ worker'.pc = worker.pc /\ Live(worker)
               /\ promise /\ worker.result = "pending"
               /\ worker'.interrupts = worker.interrupts + 1
        /\ (worker.observed = "none" /\ worker'.observed # "none")
            => /\ Live(worker) /\ worker.interrupts > 0
               /\ worker'.first = worker.first
        /\ ~Live(worker') => worker'.interrupts = 0 ]_vars

C22_LaterRunPollsEmptyChannel ==
    /\ worker.pc = "stop1" /\ worker.interrupts = 0 /\ gen_interrupt
    /\ progress = Msg("", F_2_0)

\* the end-of-run message of a run that resolved Ok
Sentinel == Msg("", F_2_0)

FlagsAgree(o) ==
    /\ ~(o.micro /\ o.stud)
    /\ o.micro <=> (o.asset = "PB_DEFAULT_MICRO_BRICK")
    /\ o.stud <=> (o.asset = "PB_DEFAULT_STUDDED")

\* C24: in every GenOptions built by options() or by the command line,
\* micro and stud are not both set, micro is set exactly with the micro
\* brick asset and stud exactly with the studded asset.
C24_FamilyFlagsAgreeWithAsset ==
    /\ (gui_options.built /\ gui_options.out.built) => FlagsAgree(gui_options.out)
    /\ cli.options.built => FlagsAgree(cli.options)

\* C25: five times a size that a front-end accepts fits in 16 bits, so
\* the GenOptions are built and their size is the exact product.
C25_ProductFitsU16 ==
    /\ gui_options.built =>
          /\ StudUnit * gui_options.size_in <= U16Max
          /\ gui_options.out.built
          /\ gui_options.mode # "Micro"
                => gui_options.out.size = StudUnit * gui_options.size_in
    /\ (cli.pc # "start" /\ ParseU16(value_or(cli.argv.size, 1)).ok) =>
          /\ StudUnit * value_or(cli.argv.size, 1) <= U16Max
          /\ cli.options.built
          /\ ~cli.argv.micro
                => cli.options.size = StudUnit * value_or(cli.argv.size, 1)

=============================================================================
